---- MODULE Spec2Model ----
(***************************************************************************)
(* finddups (src/finddups.c): the size index (a left-leaning red-black    *)
(* tree keyed by file size, one list of file entries per size) and the    *)
(* duplicate resolver chkForDups (pairwise chunked comparison with the    *)
(* skip-ahead ledger ar).                                                  *)
(*                                                                         *)
(* Three specifications over one set of variables:                        *)
(*   SpecIndex  the traversal phase alone: visit() called with arbitrary  *)
(*              (size, dev, inode) triples;                                *)
(*   SpecTree   the traversal phase alone, every file its own inode and   *)
(*              more sizes, for the shape of the tree;                     *)
(*   Spec       the whole of main(): the traversal of a static file       *)
(*              system, then chkForDups step by step, then the report.    *)
(* File contents are the environment of read(): a byte of a file is       *)
(* chosen when it is first read and is the same at every later read.      *)
(***************************************************************************)
EXTENDS Integers, Sequences, FiniteSets, TLC

(* ------------------------------ bounds --------------------------------- *)
\* SpecIndex: number of visit() calls, and the number of sizes drawn
MaxVisits == 4
NumSizes == 3
\* SpecTree: number of visit() calls, and the sizes drawn
MaxInserts == 6
NumKeys == 6
\* Spec: number of regular files of the file system, and their largest size
NumFiles == 3
MaxSize == 5
\* the read chunk (compiled with -DBUFSIZE=...)
BUFSIZE == 2

\* the byte values a file may hold, and the mark of a byte not read yet
Bytes == {0, 1}
UNREAD == 0 - 1

VARIABLES
  root,      \* struct Node *root
  visited,   \* the stat records of the regular files visited so far, in
             \* traversal order; the k-th file visited has name k
  pc,        \* main(): "scan", "resolve", "done"; exits: "exit1", "abort", "crash"
  disk,      \* inode -> the bytes read so far (UNREAD where never read)
  todo,      \* nodes the recursion of chkForDups has still to process
  node,      \* chkForDups: the node being processed
  lpc,       \* chkForDups: position inside the processing of node
  cnt, i, j, \* chkForDups locals
  fflags, ar, dn, maxToSkip, fdi, fdj,
  retval,    \* the chain of dupNodes built so far, head first
  fdtab,     \* the process's open file descriptors: fd -> [ino, off]
  heap,      \* which of ibuff, jbuff, fflags, ar are allocated
  stdout,    \* the groups printed by main
  ioerr,     \* the system call that failed, "none" while none has
  nio        \* number of open/lseek/read calls made for the current node

resVars == <<todo, node, lpc, cnt, i, j, fflags, ar, dn, maxToSkip, fdi, fdj,
             retval, fdtab, heap, stdout, ioerr, nio>>
vars == <<root, visited, pc, disk, todo, node, lpc, cnt, i, j, fflags, ar, dn,
          maxToSkip, fdi, fdj, retval, fdtab, heap, stdout, ioerr, nio>>

(* --------------------------- the size index ---------------------------- *)
NULL == [null |-> TRUE]
IsNull(n) == "null" \in DOMAIN n

isRed(n) == ~IsNull(n) /\ n.color = 1

\* the three assertions of colorFlip; a NULL child is a failed dereference
colorFlipAsserts(n) ==
  /\ n.color = 0
  /\ ~IsNull(n.left) /\ n.left.color = 1
  /\ ~IsNull(n.right) /\ n.right.color = 1

colorFlip(n) ==
  [n EXCEPT !.color = 1,
            !.left = [n.left EXCEPT !.color = 0],
            !.right = [n.right EXCEPT !.color = 0]]

rotateLeft(h) ==
  LET x == h.right
      h2 == [h EXCEPT !.right = x.left, !.color = 1]
  IN [x EXCEPT !.left = h2, !.color = h.color]

rotateRight(h) ==
  LET x == h.left
      h2 == [h EXCEPT !.left = x.right, !.color = 1]
  IN [x EXCEPT !.right = h2, !.color = h.color]

newFileNode(name, st) == [name |-> name, dev |-> st.dev, inode |-> st.inode]

\* a scan that looks at the first entry only
sameAsHead(files, st) ==
  Len(files) > 0 /\ files[1].dev = st.dev /\ files[1].inode = st.inode

\* the hard-link scan of insertR: some entry has the dev and inode of st
sameFile(files, st) ==
  \E k \in 1..Len(files) : files[k].dev = st.dev /\ files[k].inode = st.inode

\* the entry put at the tail instead of the head
appendFile(files, fp) == files \o <<fp>>

\* fp->next = node->files; node->files = fp
linkFile(files, fp) == <<fp>> \o files

\* isRed(node->right) && !isRed(node->left)
leansRight(n) == isRed(n.right) /\ ~isRed(n.left)

\* the test made on the inner grandchild
twoRedsInner(n) == isRed(n.left) /\ isRed(n.left.right)

\* isRed(node->left) && isRed(node->left->left)
twoRedsLeft(n) == isRed(n.left) /\ isRed(n.left.left)

\* insertR returns the new subtree; ok is FALSE when an assertion of
\* colorFlip failed on the way
RECURSIVE insertR(_, _, _)
insertR(n, name, st) ==
  IF IsNull(n) THEN
    [t |-> [size |-> st.size, files |-> <<newFileNode(name, st)>>,
            left |-> NULL, right |-> NULL, color |-> 1],
     ok |-> TRUE]
  ELSE IF st.size = n.size THEN
    [t |-> IF sameFile(n.files, st) THEN n
           ELSE [n EXCEPT !.files = linkFile(n.files, newFileNode(name, st))],
     ok |-> TRUE]
  ELSE
    LET flip == isRed(n.left) /\ isRed(n.right)
        n1 == IF flip THEN colorFlip(n) ELSE n
        sub == IF st.size < n1.size THEN insertR(n1.left, name, st)
               ELSE insertR(n1.right, name, st)
        n2 == IF st.size < n1.size THEN [n1 EXCEPT !.left = sub.t]
              ELSE [n1 EXCEPT !.right = sub.t]
        n3 == IF leansRight(n2) THEN rotateLeft(n2) ELSE n2
        n4 == IF twoRedsLeft(n3) THEN rotateRight(n3) ELSE n3
    IN [t |-> n4, ok |-> (flip => colorFlipAsserts(n)) /\ sub.ok]

\* insert: root = insertR(root, name, st); root->color = 0
insert(r, name, st) ==
  LET res == insertR(r, name, st)
  IN [t |-> [res.t EXCEPT !.color = 0], ok |-> res.ok]

\* visit: the nftw callback on a regular file; a failed assert aborts
visit(st) ==
  /\ pc = "scan"
  /\ visited' = Append(visited, st)
  /\ LET res == insert(root, Len(visited) + 1, st)
     IN IF res.ok
        THEN root' = res.t /\ pc' = pc
        ELSE root' = root /\ pc' = "abort"

(* tree walks used by the resolver and by the properties *)
RECURSIVE InOrder(_)
InOrder(n) ==
  IF IsNull(n) THEN <<>> ELSE InOrder(n.left) \o <<n>> \o InOrder(n.right)

(* ------------------------- the duplicate resolver ----------------------- *)
\* fi / fj: the entry reached after k steps of ->next from node->files
FileAt(k) == node.files[k + 1]

\* ar[r*cnt + c]
Cell(r, c) == r * cnt + c + 1

copyFileNode(old) == [name |-> old.name, dev |-> old.dev, inode |-> old.inode]

addDupNode(size, file, chain) ==
  LET d == IF IsNull(chain) THEN [size |-> size, files |-> <<>>] ELSE chain
  IN [d EXCEPT !.files = <<copyFileNode(file)>> \o @]

\* a scan that takes an entry of 0 for a mismatch too
RECURSIVE pastRowsZero(_, _, _, _)
pastRowsZero(pr, ii, jj, m) ==
  IF pr >= ii THEN m
  ELSE LET ari == ar[Cell(pr, ii)]
       IN IF ari # ar[Cell(pr, jj)] \/ ari = 0 THEN -1
          ELSE pastRowsZero(pr + 1, ii, jj, IF ari > m THEN ari ELSE m)

\* the scan of the past rows pr < ii of ar at columns ii and jj: -1 when a
\* row differs, else the largest value found
RECURSIVE pastRows(_, _, _, _)
pastRows(pr, ii, jj, m) ==
  IF pr >= ii THEN m
  ELSE LET ari == ar[Cell(pr, ii)]
       IN IF ari # ar[Cell(pr, jj)] THEN -1
          ELSE pastRows(pr + 1, ii, jj, IF ari > m THEN ari ELSE m)

\* the special case of size 0 removed
bucketKindGeneral(c, size) == IF c < 2 THEN "few" ELSE "alloc"

\* which branch of chkForDups a node with c files takes
bucketKind(c, size) ==
  IF c < 2 THEN "few" ELSE IF size # 0 THEN "alloc" ELSE "zero"

\* open(): the lowest descriptor not in use, at offset 0
lowestFd == CHOOSE f \in 3..(3 + Cardinality(DOMAIN fdtab)) : f \notin DOMAIN fdtab
openFd(tab, fd, ino) == [f \in DOMAIN tab \cup {fd} |->
                           IF f = fd THEN [ino |-> ino, off |-> 0] ELSE tab[f]]
closeFd(tab, fd) == [f \in DOMAIN tab \ {fd} |-> tab[f]]
closeBoth(tab, a, b) == closeFd(closeFd(tab, b), a)

\* the bytes read() delivers from offset off of a file of the given content
chunkLen(content, off) ==
  IF Len(content) - off < BUFSIZE
  THEN (IF Len(content) - off < 0 THEN 0 ELSE Len(content) - off)
  ELSE BUFSIZE

\* the byte values already read at position p of the files as long as content
seenAt(d, len, p) ==
  {d[f][p] : f \in {g \in 1..Len(d) : Len(d[g]) = len /\ d[g][p] # UNREAD}}

\* the values position p of a file may hold: what an earlier read saw there;
\* else any value seen there in a file of the same size, or one new value
\* (bytes are only compared for equality at equal offsets of same-size
\* files, so the values at an offset are named in order of appearance)
byteChoices(d, content, p) ==
  IF content[p] # UNREAD THEN {content[p]}
  ELSE LET seen == seenAt(d, Len(content), p)
           fresh == Bytes \ seen
       IN seen \cup (IF fresh = {} THEN {}
                     ELSE {CHOOSE b \in fresh : \A c \in fresh : b <= c})

\* the contents read() may find at [off, off+n) of a file
chunksAt(d, content, off, n) ==
  {c \in [1..n -> Bytes] : \A k \in 1..n : c[k] \in byteChoices(d, content, off + k)}

reveal(content, off, c) ==
  [k \in 1..Len(content) |->
     IF k > off /\ k <= off + Len(c) THEN c[k - off] ELSE content[k]]

\* a comparison of the first byte of the chunks only
firstByteDiffers(a, b, n) == n > 0 /\ a[1] # b[1]

\* memcmp(ibuff, jbuff, n) # 0
memcmpDiffers(a, b, n) == \E k \in 1..n : a[k] # b[k]

\* the frees and closes of the seek and read error paths leave no descriptor
releaseAll(tab, a, b) == closeBoth(tab, a, b)

\* an error_exit that logs and returns
error_return(call) == ioerr' = call /\ pc' = pc

\* error_exit: the message goes to syslog and the process exits with 1
error_exit(call) == ioerr' = call /\ pc' = "exit1"

\* only fflags[i] set
markOnlyI(fl, ii, jj) == [fl EXCEPT ![ii + 1] = 1]

\* fflags[i] = fflags[j] = 1
markGrouped(fl, ii, jj) == [fl EXCEPT ![ii + 1] = 1, ![jj + 1] = 1]

(* nftw returned for every directory: chkForDups(root, NULL) starts *)
StartResolve ==
  /\ pc = "scan"
  /\ pc' = "resolve" /\ todo' = InOrder(root) /\ lpc' = "next"
  /\ UNCHANGED <<root, visited, disk, node, cnt, i, j, fflags, ar, dn,
                 maxToSkip, fdi, fdj, retval, fdtab, heap, stdout, ioerr, nio>>

(* the next node of the in-order recursion: count its files *)
ChkNode ==
  /\ pc = "resolve" /\ lpc = "next" /\ todo # <<>>
  /\ node' = Head(todo) /\ todo' = Tail(todo)
  /\ cnt' = Len(Head(todo).files)
  /\ lpc' = bucketKind(Len(Head(todo).files), Head(todo).size)
  /\ nio' = 0
  /\ UNCHANGED <<root, visited, pc, disk, i, j, fflags, ar, dn, maxToSkip,
                 fdi, fdj, retval, fdtab, heap, stdout, ioerr>>

(* cnt < 2: free(fp) and then fp = fp->next reads the freed entry; the read *)
(* finds the old NULL, or something else and the process dies              *)
FreeFew ==
  /\ pc = "resolve" /\ lpc = "few"
  /\ \E intact \in BOOLEAN :
       IF intact THEN pc' = pc /\ lpc' = "next"
       ELSE pc' = "crash" /\ lpc' = lpc
  /\ UNCHANGED <<root, visited, disk, todo, node, cnt, i, j, fflags, ar, dn,
                 maxToSkip, fdi, fdj, retval, fdtab, heap, stdout, ioerr, nio>>

(* size == 0: all the files of the node are one group *)
ZeroSize ==
  /\ pc = "resolve" /\ lpc = "zero"
  /\ retval' = <<[size |-> 0, files |-> node.files]>> \o retval
  /\ lpc' = "next"
  /\ UNCHANGED <<root, visited, pc, disk, todo, node, cnt, i, j, fflags, ar,
                 dn, maxToSkip, fdi, fdj, fdtab, heap, stdout, ioerr, nio>>

(* the general case: the buffers, the flags and the ledger are allocated *)
Alloc ==
  /\ pc = "resolve" /\ lpc = "alloc"
  /\ heap' = {"ibuff", "jbuff", "fflags", "ar"}
  /\ fflags' = [k \in 1..cnt |-> 0]
  /\ ar' = [k \in 1..(cnt * cnt) |-> 0]
  /\ i' = 0 /\ lpc' = "iloop"
  /\ UNCHANGED <<root, visited, pc, disk, todo, node, cnt, j, dn, maxToSkip,
                 fdi, fdj, retval, fdtab, stdout, ioerr, nio>>

(* for (i = 0; i < cnt - 1; ++i): the test, and the skip of a grouped i *)
RowStep ==
  /\ pc = "resolve" /\ lpc = "iloop"
  /\ IF i >= cnt - 1 THEN lpc' = "free" /\ UNCHANGED <<i, j>>
     ELSE IF fflags[i + 1] # 0 THEN i' = i + 1 /\ UNCHANGED <<lpc, j>>
     ELSE j' = i + 1 /\ lpc' = "jloop" /\ UNCHANGED i
  /\ UNCHANGED <<root, visited, pc, disk, todo, node, cnt, fflags, ar, dn,
                 maxToSkip, fdi, fdj, retval, fdtab, heap, stdout, ioerr, nio>>

(* for (j = i + 1; fj; ++j): the test, the skip of a grouped j, and the *)
(* scan of the past rows                                                *)
ColStep ==
  /\ pc = "resolve" /\ lpc = "jloop"
  /\ IF j >= cnt THEN lpc' = "rowend" /\ UNCHANGED <<j, maxToSkip>>
     ELSE IF fflags[j + 1] # 0 THEN j' = j + 1 /\ UNCHANGED <<lpc, maxToSkip>>
     ELSE maxToSkip' = pastRows(0, i, j, 0) /\ lpc' = "inferred" /\ UNCHANGED j
  /\ UNCHANGED <<root, visited, pc, disk, todo, node, cnt, i, fflags, ar, dn,
                 fdi, fdj, retval, fdtab, heap, stdout, ioerr, nio>>

(* if (maxToSkip < 0) continue *)
SkipPair ==
  /\ pc = "resolve" /\ lpc = "inferred" /\ maxToSkip < 0
  /\ j' = j + 1 /\ lpc' = "jloop"
  /\ UNCHANGED <<root, visited, pc, disk, todo, node, cnt, i, fflags, ar, dn,
                 maxToSkip, fdi, fdj, retval, fdtab, heap, stdout, ioerr, nio>>

(* open(fi->name): on failure a message and error_exit *)
OpenI ==
  /\ pc = "resolve" /\ lpc = "inferred" /\ maxToSkip >= 0
  /\ nio' = nio + 1
  /\ \E ok \in BOOLEAN :
       IF ok
       THEN /\ fdi' = lowestFd
            /\ fdtab' = openFd(fdtab, lowestFd, FileAt(i).inode)
            /\ lpc' = "openj"
            /\ UNCHANGED <<pc, stdout, ioerr>>
       ELSE /\ stdout' = Append(stdout, [kind |-> "error", size |-> 0,
                                         files |-> <<FileAt(i).name>>])
            /\ error_exit("open")
            /\ UNCHANGED <<fdi, fdtab, lpc>>
  /\ UNCHANGED <<root, visited, disk, todo, node, cnt, i, j, fflags, ar, dn,
                 maxToSkip, fdj, retval, heap>>

(* open(fj->name): on failure error_exit *)
OpenJ ==
  /\ pc = "resolve" /\ lpc = "openj"
  /\ nio' = nio + 1
  /\ \E ok \in BOOLEAN :
       IF ok
       THEN /\ fdj' = lowestFd
            /\ fdtab' = openFd(fdtab, lowestFd, FileAt(j).inode)
            /\ lpc' = IF maxToSkip > 0 THEN "seek" ELSE "read"
            /\ UNCHANGED <<pc, ioerr>>
       ELSE /\ error_exit("open")
            /\ UNCHANGED <<fdj, fdtab, lpc>>
  /\ UNCHANGED <<root, visited, disk, todo, node, cnt, i, j, fflags, ar, dn,
                 maxToSkip, fdi, retval, heap, stdout>>

(* maxToSkip > 0: both lseek calls; on failure free, close, error_exit *)
Seek ==
  /\ pc = "resolve" /\ lpc = "seek"
  /\ nio' = nio + 2
  /\ \E ok \in BOOLEAN :
       IF ok
       THEN /\ fdtab' = [fdtab EXCEPT ![fdi].off = maxToSkip,
                                      ![fdj].off = maxToSkip]
            /\ lpc' = "read"
            /\ UNCHANGED <<pc, heap, ioerr>>
       ELSE /\ heap' = {} /\ fdtab' = releaseAll(fdtab, fdi, fdj)
            /\ error_exit("seek")
            /\ UNCHANGED lpc
  /\ UNCHANGED <<root, visited, disk, todo, node, cnt, i, j, fflags, ar, dn,
                 maxToSkip, fdi, fdj, retval, stdout>>

(* one turn of for (;;): both reads, the comparison, the ledger, the group *)
ReadStep ==
  /\ pc = "resolve" /\ lpc = "read"
  /\ nio' = nio + 2
  /\ \E ok \in BOOLEAN :
       IF ~ok
       THEN /\ heap' = {} /\ fdtab' = releaseAll(fdtab, fdi, fdj)
            /\ error_exit("read")
            /\ UNCHANGED <<disk, lpc, ar, dn, fflags>>
       ELSE
         LET inoI == fdtab[fdi].ino
             inoJ == fdtab[fdj].ino
             offI == fdtab[fdi].off
             offJ == fdtab[fdj].off
             nri == chunkLen(disk[inoI], offI)
         IN \E ibuff \in chunksAt(disk, disk[inoI], offI, nri) :
              LET disk1 == [disk EXCEPT ![inoI] = reveal(@, offI, ibuff)]
                  nrj == chunkLen(disk1[inoJ], offJ)
              IN \E jbuff \in chunksAt(disk1, disk1[inoJ], offJ, nrj) :
                   /\ disk' = [disk1 EXCEPT ![inoJ] = reveal(@, offJ, jbuff)]
                   /\ fdtab' = [fdtab EXCEPT ![fdi].off = offI + nri,
                                             ![fdj].off = offJ + nrj]
                   /\ UNCHANGED <<pc, heap, ioerr>>
                   /\ IF nri # nrj \/ memcmpDiffers(ibuff, jbuff, nri)
                      THEN lpc' = "close" /\ UNCHANGED <<ar, dn, fflags>>
                      ELSE /\ ar' = [ar EXCEPT ![Cell(i, j)] = @ + nri]
                           /\ IF nri = 0
                              THEN /\ dn' = addDupNode(node.size, FileAt(j),
                                        IF fflags[i + 1] = 0
                                        THEN addDupNode(node.size, FileAt(i), dn)
                                        ELSE dn)
                                   /\ fflags' = markGrouped(fflags, i, j)
                                   /\ lpc' = "close"
                              ELSE UNCHANGED <<dn, fflags, lpc>>
  /\ UNCHANGED <<root, visited, todo, node, cnt, i, j, maxToSkip, fdi, fdj,
                 retval, stdout>>

(* close(fdj); close(fdi); and ++j *)
ClosePair ==
  /\ pc = "resolve" /\ lpc = "close"
  /\ fdtab' = closeBoth(fdtab, fdi, fdj)
  /\ j' = j + 1 /\ lpc' = "jloop"
  /\ UNCHANGED <<root, visited, pc, disk, todo, node, cnt, i, fflags, ar, dn,
                 maxToSkip, fdi, fdj, retval, heap, stdout, ioerr, nio>>

(* after the j loop: a chain of dups of fi is put on the result; ++i *)
RowEnd ==
  /\ pc = "resolve" /\ lpc = "rowend"
  /\ IF ~IsNull(dn) THEN retval' = <<dn>> \o retval /\ dn' = NULL
     ELSE UNCHANGED <<retval, dn>>
  /\ i' = i + 1 /\ lpc' = "iloop"
  /\ UNCHANGED <<root, visited, pc, disk, todo, node, cnt, j, fflags, ar,
                 maxToSkip, fdi, fdj, fdtab, heap, stdout, ioerr, nio>>

(* free(ibuff); free(jbuff); free(fflags); free(ar) *)
FreeBufs ==
  /\ pc = "resolve" /\ lpc = "free"
  /\ heap' = {} /\ lpc' = "next"
  /\ UNCHANGED <<root, visited, pc, disk, todo, node, cnt, i, j, fflags, ar,
                 dn, maxToSkip, fdi, fdj, retval, fdtab, stdout, ioerr, nio>>

(* main: chkForDups returned; every group of the chain is printed *)
Report ==
  /\ pc = "resolve" /\ lpc = "next" /\ todo = <<>>
  /\ stdout' = stdout \o [k \in 1..Len(retval) |->
                            [kind |-> "group", size |-> retval[k].size,
                             files |-> [m \in 1..Len(retval[k].files) |->
                                          retval[k].files[m].name]]]
  /\ pc' = "done"
  /\ UNCHANGED <<root, visited, disk, todo, node, lpc, cnt, i, j, fflags, ar,
                 dn, maxToSkip, fdi, fdj, retval, fdtab, heap, ioerr, nio>>

Resolve ==
  \/ StartResolve \/ ChkNode \/ FreeFew \/ ZeroSize \/ Alloc \/ RowStep
  \/ ColStep \/ SkipPair \/ OpenI \/ OpenJ \/ Seek \/ ReadStep \/ ClosePair
  \/ RowEnd \/ FreeBufs \/ Report

(* ------------------------------ SpecIndex ------------------------------ *)
\* identities: two inodes of one device, and the first inode on a second one
Identities == {<<1, 1>>, <<1, 2>>, <<2, 1>>}

IndexStats ==
  {[size |-> s, dev |-> id[1], inode |-> id[2]] :
     s \in 0..(NumSizes - 1), id \in Identities}

InitLocals ==
  /\ todo = <<>> /\ node = NULL /\ lpc = "idle"
  /\ cnt = 0 /\ i = 0 /\ j = 0 /\ fflags = <<>> /\ ar = <<>> /\ dn = NULL
  /\ maxToSkip = 0 /\ fdi = -1 /\ fdj = -1
  /\ retval = <<>> /\ fdtab = <<>> /\ heap = {} /\ stdout = <<>>
  /\ ioerr = "none" /\ nio = 0

Init ==
  /\ root = NULL /\ visited = <<>> /\ pc = "scan" /\ disk = <<>>
  /\ InitLocals

VisitAny ==
  /\ Len(visited) < MaxVisits
  /\ \E st \in IndexStats : visit(st)
  /\ UNCHANGED <<disk, resVars>>

NextIndex == VisitAny

SpecIndex == Init /\ [][NextIndex]_vars

(* ------------------------------ SpecTree ------------------------------- *)
\* every file its own inode, sizes drawn from 1..NumKeys
VisitDistinct ==
  /\ Len(visited) < MaxInserts
  /\ \E s \in 1..NumKeys :
       visit([size |-> s, dev |-> 1, inode |-> Len(visited) + 1])
  /\ UNCHANGED <<disk, resVars>>

NextTree == VisitDistinct

SpecTree == Init /\ [][NextTree]_vars

(* -------------------------------- Spec --------------------------------- *)
\* the traversal of a static file system: the next regular file is a new
\* inode of any size, or one more link to an inode already seen
Walk ==
  /\ Len(visited) < NumFiles
  /\ \/ \E s \in 0..MaxSize :
          /\ visit([size |-> s, dev |-> 1, inode |-> Len(disk) + 1])
          /\ disk' = Append(disk, [k \in 1..s |-> UNREAD])
     \/ \E ino \in 1..Len(disk) :
          /\ visit([size |-> Len(disk[ino]), dev |-> 1, inode |-> ino])
          /\ disk' = disk
  /\ UNCHANGED resVars

Next == Walk \/ Resolve

Spec == Init /\ [][Next]_vars

(* ============================ properties =============================== *)
Content(f) == disk[f.inode]

\* every byte of both has been read and they are equal
Same(a, b) ==
  /\ Len(a) = Len(b)
  /\ \A k \in 1..Len(a) : a[k] # UNREAD /\ a[k] = b[k]

\* some byte read in both is different
Differ(a, b) ==
  \E k \in 1..Len(a) :
    k <= Len(b) /\ a[k] # UNREAD /\ b[k] # UNREAD /\ a[k] # b[k]

\* the first n bytes of both have been read and are equal
SamePrefix(a, b, n) ==
  /\ n <= Len(a) /\ n <= Len(b)
  /\ \A k \in 1..n : a[k] # UNREAD /\ a[k] = b[k]

Range(seq) == {seq[k] : k \in 1..Len(seq)}
Nodes == Range(InOrder(root))

\* the groups built so far: the chain, and the one under construction
Groups == Range(retval) \cup (IF IsNull(dn) THEN {} ELSE {dn})

Member(g, name) == \E m \in 1..Len(g.files) : g.files[m].name = name
Together(a, b) == \E g \in Groups : Member(g, a.name) /\ Member(g, b.name)

\* the nodes whose processing by chkForDups is over
Resolved ==
  IF pc \in {"scan", "abort"} THEN {}
  ELSE {n \in Nodes : n \notin Range(todo) /\ ~(n = node /\ lpc # "next")}

\* a pair comparison is under way
Comparing == pc = "resolve" /\ lpc \in {"openj", "seek", "read", "close"}

(* C1: two files of one group have the size of the group and contents *)
(* that were read in full and found equal byte for byte; so two same-size *)
(* files differing in a byte are never in one group.                      *)
C1_NoFalseDuplicates ==
  \A g \in Groups :
    \A a \in Range(g.files), b \in Range(g.files) :
      /\ visited[a.name].size = g.size
      /\ Len(Content(a)) = g.size
      /\ Same(Content(a), Content(b))

\* the run is over with a group of two files of several chunks, and a
\* third file of that size that a later byte kept out of the group
C1_Witness ==
  /\ pc = "done"
  /\ \E g \in Range(retval), n \in Nodes :
       /\ g.size > BUFSIZE /\ n.size = g.size
       /\ \E a \in Range(n.files), b \in Range(n.files) :
            /\ Member(g, a.name) /\ ~Member(g, b.name)
            /\ SamePrefix(Content(a), Content(b), BUFSIZE)

(* C2: in a resolved bucket two files are in one group together unless a  *)
(* byte read in both differs; no file is in two groups or twice in one.   *)
C2_OneGroupPerContent ==
  /\ \A n \in Resolved :
       \A a \in Range(n.files), b \in Range(n.files) :
         a # b => Together(a, b) \/ Differ(Content(a), Content(b))
  /\ \A n \in Nodes : \A a \in Range(n.files) :
       /\ Cardinality({k \in 1..Len(retval) : Member(retval[k], a.name)})
            + (IF ~IsNull(dn) /\ Member(dn, a.name) THEN 1 ELSE 0) <= 1
       /\ \A g \in Groups :
            Cardinality({m \in 1..Len(g.files) : g.files[m].name = a.name}) <= 1

\* three files of more than one chunk ended in one group
C2_Witness ==
  /\ pc = "done"
  /\ \E g \in Range(retval) : g.size > BUFSIZE /\ Len(g.files) >= 3

(* C3: a pair skipped because a past row differs in its two columns does *)
(* differ in a byte read in both; a pair compared from maxToSkip agrees   *)
(* on the first maxToSkip bytes; and in a resolved bucket the groups are  *)
(* those of the comparison of whole contents: together exactly when the   *)
(* contents are the same, apart exactly when they differ.                 *)
C3_SkipAheadSound ==
  /\ (pc = "resolve" /\ lpc = "inferred" /\ maxToSkip < 0)
       => Differ(Content(FileAt(i)), Content(FileAt(j)))
  /\ ((Comparing \/ (pc = "resolve" /\ lpc = "inferred")) /\ maxToSkip > 0)
       => SamePrefix(Content(FileAt(i)), Content(FileAt(j)), maxToSkip)
  /\ \A n \in Resolved :
       \A a \in Range(n.files), b \in Range(n.files) :
         a # b =>
           /\ Together(a, b) <=> Same(Content(a), Content(b))
           /\ ~Together(a, b) <=> Differ(Content(a), Content(b))

\* a pair is skipped by inference: both files matched the first file of
\* the bucket over a chunk or more, and over different lengths
C3_Witness ==
  /\ pc = "resolve" /\ lpc = "inferred" /\ maxToSkip < 0 /\ i = 1
  /\ ar[Cell(0, i)] > 0 /\ ar[Cell(0, j)] > 0

(* C5: no open, lseek or read is made for the bucket of size 0; once it  *)
(* is resolved, its two or more files are the files of exactly one group *)
(* of size 0, and with fewer than two files there is no such group.      *)
C5_ZeroSizeGrouping ==
  /\ (pc # "scan" /\ ~IsNull(node) /\ node.size = 0)
       => nio = 0 /\ fdtab = <<>> /\ heap = {}
  /\ \A n \in Resolved :
       n.size = 0 =>
         LET zero == {k \in 1..Len(retval) : retval[k].size = 0}
         IN IF Len(n.files) >= 2
            THEN /\ Cardinality(zero) = 1
                 /\ \A k \in zero : retval[k].files = n.files
            ELSE zero = {}

\* three empty files were put in one group
C5_Witness ==
  /\ pc = "done"
  /\ \E g \in Range(retval) : g.size = 0 /\ Len(g.files) = 3

NoGroupPrinted == \A k \in 1..Len(stdout) : stdout[k].kind # "group"

(* C6: once an open, lseek or read has failed the process has exited with *)
(* status 1, no group is printed, and no further step is taken.           *)
C6_FatalIOFailure ==
  /\ [](ioerr # "none" => pc = "exit1" /\ NoGroupPrinted)
  /\ [][ioerr = "none"]_vars

\* a read failed in the comparison of the first and third file of a bucket
\* after the first and second had been found to be duplicates
C6_Witness ==
  /\ pc = "exit1" /\ ioerr = "read"
  /\ ~IsNull(dn) /\ Len(dn.files) = 2 /\ i = 0 /\ j = 2

(* C7 as stated: the files of a bucket are in arrival order, and so are  *)
(* the two files of the pair (i, j) the resolver compares.                *)
C7_ArrivalOrder ==
  /\ \A n \in Nodes :
       \A a \in 1..Len(n.files), b \in 1..Len(n.files) :
         a < b => n.files[a].name < n.files[b].name
  /\ Comparing => i < j /\ FileAt(i).name < FileAt(j).name

(* C7 amended: the files of a bucket are in the reverse of arrival order *)
(* (a new entry is put at the head), and of the pair (i, j) compared,     *)
(* i < j, file i arrived after file j.                                    *)
C7_ReverseArrivalOrder ==
  /\ \A n \in Nodes :
       \A a \in 1..Len(n.files), b \in 1..Len(n.files) :
         a < b => n.files[a].name > n.files[b].name
  /\ Comparing => i < j /\ FileAt(i).name > FileAt(j).name

\* the second and third of three files of a bucket are being compared
C7_Witness ==
  /\ pc = "resolve" /\ lpc = "read" /\ cnt = 3 /\ i = 1 /\ j = 2

(* C8 as stated: once a chunk of the pair (i, j) has been compared,      *)
(* ar[i][j] is the number of bytes from offset 0 confirmed identical so  *)
(* far, which is the offset reached by the reads (the first maxToSkip by *)
(* the ledger, the rest by the chunks compared), and the size of the     *)
(* files when they matched in full; the entry of a pair skipped by       *)
(* inference stays unset.                                                 *)
C8_LedgerIsPrefixLength ==
  /\ (pc = "resolve" /\ lpc = "read" /\ fdtab[fdi].off > maxToSkip)
       => /\ ar[Cell(i, j)] = fdtab[fdi].off
          /\ SamePrefix(Content(FileAt(i)), Content(FileAt(j)), ar[Cell(i, j)])
  /\ (pc = "resolve" /\ lpc = "close" /\ fflags[j + 1] # 0)
       => ar[Cell(i, j)] = node.size
  /\ (pc = "resolve" /\ lpc = "inferred" /\ maxToSkip < 0)
       => ar[Cell(i, j)] = 0

(* C9 as stated: never more than two descriptors open; when a bucket is  *)
(* resolved or the run has ended, no descriptor is open and the buffers, *)
(* the flags and the ledger are released.                                 *)
C9_ResourcesReleased ==
  /\ Cardinality(DOMAIN fdtab) <= 2
  /\ (pc \in {"done", "exit1", "crash"} \/ (pc = "resolve" /\ lpc = "next"))
       => fdtab = <<>> /\ heap = {}

\* the buckets of the tree: size and file list of every node
Buckets(r) == {[size |-> n.size, files |-> n.files] : n \in Range(InOrder(r))}

NoTwins ==
  \A n \in Nodes :
    \A a \in 1..Len(n.files), b \in 1..Len(n.files) :
      (n.files[a].dev = n.files[b].dev /\ n.files[a].inode = n.files[b].inode)
        => a = b

\* the identity of st is among the entries
sameFileSpec(files, st) ==
  \E f \in Range(files) : f.dev = st.dev /\ f.inode = st.inode

HardLinkDiscarded ==
  LET st == visited'[Len(visited')]
  IN (\E n \in Nodes : n.size = st.size /\ sameFileSpec(n.files, st))
       => Buckets(root') = Buckets(root)

(* C4: no bucket holds two entries of one (dev, inode); a visit of a     *)
(* (dev, inode) already in the bucket of its size leaves the files of    *)
(* every bucket as they were.                                             *)
C4_HardLinkSuppression == []NoTwins /\ [][HardLinkDiscarded]_vars

\* a (dev, inode) was visited a second time with the same size, between
\* visits of two other files of that size
C4_Witness ==
  /\ Len(visited) = 4
  /\ visited[1] = visited[3]
  /\ \A k \in {2, 4} : visited[k].size = visited[1].size
  /\ \E n \in Nodes : n.size = visited[1].size /\ Len(n.files) = 3

\* no red node of the tree has a red child
RECURSIVE NoRedRed(_)
NoRedRed(n) ==
  \/ IsNull(n)
  \/ /\ n.color = 1 => ~isRed(n.left) /\ ~isRed(n.right)
     /\ NoRedRed(n.left) /\ NoRedRed(n.right)

(* C10: no assertion of colorFlip fails; after each insert the tree is a *)
(* search tree with one node for each size visited, the root is black    *)
(* and no red node has a red child.                                       *)
C10_TreeShape ==
  /\ pc # "abort"
  /\ LET io == InOrder(root)
     IN /\ \A k \in 1..(Len(io) - 1) : io[k].size < io[k + 1].size
        /\ {io[k].size : k \in 1..Len(io)}
             = {visited[k].size : k \in 1..Len(visited)}
  /\ ~IsNull(root) => root.color = 0
  /\ NoRedRed(root)

\* every size has been inserted; the root has a red left child with
\* children of its own, so nodes were flipped and rotated on the way
C10_Witness ==
  /\ Len(InOrder(root)) = NumKeys
  /\ Len(visited) = MaxInserts
  /\ isRed(root.left) /\ ~IsNull(root.left.left) /\ ~IsNull(root.left.right)

====
